---- MODULE Spec2Model ----
(***************************************************************************)
(* Model of maguro's retrieval code:                                       *)
(*   dash::Representation::segment_urls / download   (src/src/dash/mod.rs) *)
(*   Format::download / Format::to_vec_callback      (src/src/lib.rs)      *)
(*   InfoResponse::formats / adaptive_formats / all_formats, Format's Ord  *)
(*   get_video_info                                  (src/src/lib.rs)      *)
(*   dash::Manifest::streams                         (src/src/dash/mod.rs) *)
(*   main                                            (src/src/bin/main.rs) *)
(* Strings are sequences of characters, byte buffers are sequences of      *)
(* byte labels.  The transport and the sink are the environment: every     *)
(* outcome their interfaces allow is a nondeterministic choice.            *)
(***************************************************************************)
EXTENDS Integers, Sequences, FiniteSets, TLC

VARIABLES
    op,        \* the operation this run performs
    self,      \* its receiver: a Representation, a Format or an InfoResponse
    pc,        \* position in the operation: call, get, body, write, on_chunk,
               \* decode, open, choose, write_all, or how it ended: ok, err,
               \* panic, exit0, exit1
    urls,      \* the vector segment_urls returned
    i,         \* ordinal (from 1) of the URL being fetched
    cur,       \* the chunk data().await returned last
    sink,      \* the bytes the writer has accepted
    written,   \* Format::download's byte counter
    v,         \* to_vec_callback's vector
    result,    \* the Err value returned, if any
    requests,  \* log: the URLs of the GETs issued
    ended,     \* log: the number of bodies read to their end
    arrived,   \* log: the chunks the transport delivered, with their segment
    writes,    \* log: the write calls, with the bytes offered and accepted
    calls,     \* log: the arguments on_chunk was invoked with
    failures,  \* log: the transport failures, with their segment
    cb_errs,   \* log: the chunks (by arrival number) on_chunk failed on
    out,       \* the value a catalog operation returned
    cli        \* main's locals: ids, info, the resp in turn, chosen, the files

vars == <<op, self, pc, urls, i, cur, sink, written, v, result, requests,
          ended, arrived, writes, calls, failures, cb_errs, out, cli>>

(* ------------------------------ bounds -------------------------------- *)
\* media SegmentURLs per SegmentList
MaxSegments == 2
\* body chunks the transport delivers during one download
MaxChunks == 2
\* bytes per body chunk
MaxChunkLen == 2
\* Formats per list of an InfoResponse
MaxFormats == 2
\* itags run from 1 to MaxItag
MaxItag == 2
\* Periods per Manifest
MaxPeriods == 2
\* AdaptationSets per Period
MaxSets == 2
\* VIDEOS arguments of the command line
MaxVideos == 2

\* Option<T>: None, or Some(x)
None == <<>>
Some(x) == <<x>>
unwrap(o) == o[1]

(* ------------------------------ strings ------------------------------- *)
BaseUrls == { <<"h">>, <<"h", "/", "v">> }
InitNames == { <<"i">> }
\* <<" ">> is not a valid URI: Uri::from_str rejects a space
MediaNames == { <<"b">>, <<"a">>, <<" ">> }
FormatUrls == { <<"h", "/", "f">>, <<" ">> }

\* format!("{}/{}", a, b)
format(a, b) == a \o <<"/">> \o b

\* str::parse::<Uri>() succeeds
parse_ok(s) == \A k \in 1..Len(s) : s[k] # " "

(* --------------------------- dash data model -------------------------- *)
SeqsUpTo(S, n) == UNION { [1..k -> S] : k \in 0..n }

SegmentURLs == [media : MediaNames]

SegmentLists ==
    [initialization : [source_url : InitNames],
     segment_urls : SeqsUpTo(SegmentURLs, MaxSegments)]

\* a Representation addressed by a SegmentList, or by SegmentBase /
\* SegmentTemplate only (segment_list is None)
Representations ==
    [base_url : BaseUrls, segment_base : {None},
     segment_list : {Some(l) : l \in SegmentLists}, segment_template : {None}]
    \cup
    [base_url : BaseUrls, segment_base : {Some([media |-> <<"a">>])},
     segment_list : {None}, segment_template : {None}]
    \cup
    [base_url : BaseUrls, segment_base : {None},
     segment_list : {None}, segment_template : {Some([media |-> <<"a">>])}]

\* the Representations the download is run on: one base URL, media
\* references "b" (a valid URI) and " " (not one)
DownloadReps ==
    { r \in Representations :
        /\ r.base_url = <<"h">>
        /\ r.segment_list # None =>
              \A k \in 1..Len(unwrap(r.segment_list).segment_urls) :
                  unwrap(r.segment_list).segment_urls[k].media # <<"a">> }

Formats == [url : FormatUrls]

RECURSIVE push_segments_rev(_, _, _)
\* push_segments with each URL inserted at the front of the media URLs
\* instead of pushed at the back
push_segments_rev(acc, base_url, segs) ==
    IF segs = <<>> THEN acc
    ELSE push_segments_rev(
             <<Head(acc)>> \o <<format(base_url, Head(segs).media)>> \o Tail(acc),
             base_url, Tail(segs))

RECURSIVE push_segments(_, _, _)
\* the for loop of segment_urls: one push per SegmentURL, in document order
push_segments(acc, base_url, segs) ==
    IF segs = <<>> THEN acc
    ELSE push_segments(Append(acc, format(base_url, Head(segs).media)),
                       base_url, Tail(segs))

segment_urls(rep) ==
    LET segment_list == unwrap(rep.segment_list)
    IN  push_segments(
            <<format(rep.base_url, segment_list.initialization.source_url)>>,
            rep.base_url, segment_list.segment_urls)

(* ------------------------------ the manifest -------------------------- *)
\* an AdaptationSet: its id and one of its descriptive fields
AdaptationSets == [id : {Some(1), Some(2)}, mime_type : {None}]

Periods == [adaptation_sets : SeqsUpTo(AdaptationSets, MaxSets)]

\* a Manifest holds at least one Period: `periods` has no serde default
Manifests == [periods : SeqsUpTo(Periods, MaxPeriods) \ {<<>>}]

\* Manifest::streams: `self.period.adaptation_sets.clone()`, the
\* AdaptationSets of ONE Period (the p-th; the struct's field is
\* `periods`, and the code does not say which of them `period` is)
streams(m, p) == m.periods[p].adaptation_sets

(* ------------------------------ the catalog --------------------------- *)
\* a Format of the catalog: its key and one of its descriptive fields
CatalogFormats == [itag : 1..MaxItag, quality : {"hd720", "tiny"}]

FormatLists == SeqsUpTo(CatalogFormats, MaxFormats)

\* InfoResponse, its streaming_data: formats is Option<Vec<Format>>
InfoResponses ==
    [streaming_data :
        [formats : {None} \cup {Some(l) : l \in FormatLists},
         adaptive_formats : FormatLists]]

\* impl Ord for Format: self.itag.cmp(&other.itag)
cmp(a, b) ==
    IF a.itag < b.itag THEN "Less"
    ELSE IF a.itag > b.itag THEN "Greater" ELSE "Equal"

\* the equality #[derive(PartialEq)] would give: every field compared
eq_derived(a, b) == a = b

\* impl PartialEq for Format: self.itag.eq(&other.itag)
eq(a, b) == a.itag = b.itag

\* impl PartialOrd for Format: Some(self.itag.cmp(&other.itag))
partial_cmp(a, b) == Some(cmp(a, b))

RECURSIVE insert(_, _)
\* x put into the sorted s after every element that is not Greater than it
insert(s, x) ==
    IF s = <<>> THEN <<x>>
    ELSE IF cmp(Head(s), x) = "Greater" THEN <<x>> \o s
    ELSE <<Head(s)>> \o insert(Tail(s), x)

RECURSIVE sort(_)
\* slice::sort: stable, ordered by Ord::cmp
sort(s) == IF s = <<>> THEN <<>> ELSE insert(sort(SubSeq(s, 1, Len(s) - 1)), s[Len(s)])

\* InfoResponse::formats
formats(info) ==
    IF info.streaming_data.formats = None THEN None
    ELSE Some(sort(unwrap(info.streaming_data.formats)))

\* InfoResponse::adaptive_formats
adaptive_formats(info) == sort(info.streaming_data.adaptive_formats)

\* all_formats chaining the two lists as they are stored
all_formats_unsorted(info) ==
    IF info.streaming_data.formats # None
    THEN unwrap(info.streaming_data.formats) \o info.streaming_data.adaptive_formats
    ELSE info.streaming_data.adaptive_formats

\* InfoResponse::all_formats
all_formats(info) ==
    IF formats(info) # None
    THEN unwrap(formats(info)) \o adaptive_formats(info)
    ELSE adaptive_formats(info)

(* --------------------------- get_video_info --------------------------- *)
\* video identifiers; <<" ">> makes a URL that Uri::from_str rejects
VideoIds == { <<"x">>, <<" ">> }

\* format!("https://www.youtube.com/get_video_info?video_id={}", id)
info_url(id) == <<"h", "/", "g", "?">> \o id

tiny(n) == [itag |-> n, quality |-> "tiny"]

\* the InfoResponses the endpoint answers with: adaptive formats only and
\* stored out of order; a progressive itag above the adaptive one; none
EndpointInfos ==
    { [streaming_data |-> [formats |-> None,
                            adaptive_formats |-> <<tiny(2), tiny(1)>>]],
      [streaming_data |-> [formats |-> Some(<<tiny(2)>>),
                            adaptive_formats |-> <<tiny(1)>>]],
      [streaming_data |-> [formats |-> None, adaptive_formats |-> <<>>]] }

\* a response body: not a urlencoded player_response field (None), or the
\* field with a text that is no InfoResponse in JSON (Some(None)), or the
\* field with an InfoResponse in JSON
Bodies == {None, Some(None)} \cup {Some(Some(info)) : info \in EndpointInfos}

urlencoded_error == Some([type |-> "serde_urlencoded::de::Error", cause |-> "envelope"])
json_error == Some([type |-> "serde_json::Error", cause |-> "schema"])

\* `serde_json::from_str(&serde_urlencoded::from_bytes::<InfoWrapper>(&body)?
\* .player_response)?`: <<"err", e>> or <<"ok", info>>
decode(body) ==
    IF body = None THEN <<"err", urlencoded_error>>
    ELSE IF unwrap(body) = None THEN <<"err", json_error>>
    ELSE <<"ok", Some(unwrap(unwrap(body)))>>

(* ------------------------------ the CLI ------------------------------- *)
Digits == <<"0", "1", "2", "3", "4", "5", "6", "7", "8", "9">>

RECURSIVE to_string(_)
\* u32::to_string: the decimal digits, no leading zero
to_string(n) ==
    IF n < 10 THEN <<Digits[n + 1]>>
    ELSE to_string(n \div 10) \o <<Digits[(n % 10) + 1]>>

\* the -f argument: absent, or its text
FormatArgs == {None, Some(<<"1">>), Some(<<"2">>), Some(<<"0", "1">>), Some(<<"9">>)}

VideoNames == << <<"x">>, <<"y">>, <<"z">>, <<"w">> >>

\* the command lines: VIDEOS (different identifiers), -f, -F
CommandLines ==
    [videos : {SubSeq(VideoNames, 1, n) : n \in 1..MaxVideos},
     format : FormatArgs,
     show_formats : BOOLEAN]

\* the URL of a catalog Format, one per itag
format_url(f) == <<"h", "/", "f">> \o to_string(f.itag)

RECURSIVE find(_, _)
\* formats.iter().find(|&f| f.itag().to_string() == fmt)
find(fs, fmt) ==
    IF fs = <<>> THEN None
    ELSE IF to_string(Head(fs).itag) = fmt THEN Some(Head(fs))
    ELSE find(Tail(fs), fmt)

\* Vec::last
last(fs) == IF fs = <<>> THEN None ELSE Some(fs[Len(fs)])

\* `match matches.value_of("format") { Some(fmt) => find, None => last }`
\* on resp.all_formats()
chosen(resp, fmt) ==
    IF fmt # None THEN find(all_formats(resp), unwrap(fmt))
    ELSE last(all_formats(resp))

\* a destination file: opened with create, the bytes this run wrote to it;
\* `got` and `body` record the chosen Format's GET and its complete body
NoFile == [created |-> FALSE, bytes |-> <<>>, got |-> None, body |-> None]

(* ----------------------------- byte buffers --------------------------- *)
RECURSIVE concat(_)
\* the concatenation of a sequence of byte buffers
concat(bufs) == IF bufs = <<>> THEN <<>> ELSE Head(bufs) \o concat(Tail(bufs))

ArrivedData == [k \in 1..Len(arrived) |-> arrived[k].data]

\* The body bytes are labelled 1, 2, 3, ... in arrival order, so that a
\* dropped, duplicated or reordered byte shows in the sink.
next_chunk(len) == [k \in 1..len |-> Len(concat(ArrivedData)) + k]

\* an error boxed with its cause replaced by a fixed message
hyper_error_opaque(cause) == Some([type |-> "hyper::Error", cause |-> "unknown"])

\* Box<dyn Error> made by `?` from the underlying error: the error itself
hyper_error(cause) == Some([type |-> "hyper::Error", cause |-> cause])
io_error(cause) == Some([type |-> "io::Error", cause |-> cause])
callback_error == Some([type |-> "on_chunk", cause |-> "callback"])

(* -------------------------------- Init -------------------------------- *)
CatalogOps == {"InfoResponse::formats", "InfoResponse::adaptive_formats",
               "InfoResponse::all_formats"}

Ops == {"Representation::segment_urls", "Representation::download",
        "Format::download", "Format::to_vec_callback", "Format::cmp",
        "Manifest::streams", "get_video_info", "main"}
       \cup CatalogOps

Inputs(o) ==
    CASE o = "Representation::segment_urls" -> Representations
      [] o = "Representation::download" -> DownloadReps
      [] o \in {"Format::download", "Format::to_vec_callback"} -> Formats
      [] o = "Format::cmp" -> CatalogFormats \X CatalogFormats
      [] o = "Manifest::streams" -> Manifests
      [] o = "get_video_info" -> VideoIds
      [] o = "main" -> CommandLines
      [] OTHER -> InfoResponses

Init ==
    /\ op \in Ops
    /\ self \in Inputs(op)
    /\ pc = "call"
    /\ urls = <<>>
    /\ i = 0
    /\ requests = <<>>
    /\ ended = 0
    /\ arrived = <<>>
    /\ cur = <<>>
    /\ writes = <<>>
    /\ sink = <<>>
    /\ written = 0
    /\ v = <<>>
    /\ calls = <<>>
    /\ result = None
    /\ failures = <<>>
    /\ cb_errs = <<>>
    /\ out = None
    /\ cli = IF op = "main"
             THEN [ids |-> self.videos, info |-> <<>>, k |-> 0, chosen |-> None,
                   files |-> [n \in 1..Len(self.videos) |-> NoFile]]
             ELSE None

(* ------------------------------ the manifest -------------------------- *)
\* Manifest::streams, and Manifest::into_iter which iterates its result
ManifestStreams ==
    /\ op = "Manifest::streams" /\ pc = "call"
    /\ \E p \in 1..Len(self.periods) : out' = streams(self, p)
    /\ pc' = "ok"
    /\ UNCHANGED <<cli, op, self, urls, i, cur, sink, written, v, result, requests,
                   ended, arrived, writes, calls, failures, cb_errs>>

(* ------------------------------ the catalog --------------------------- *)
\* a == b, a.cmp(&b) and a.partial_cmp(&b) on two Formats
FormatCmp ==
    /\ op = "Format::cmp" /\ pc = "call"
    /\ out' = [eq |-> eq(self[1], self[2]),
               cmp |-> cmp(self[1], self[2]),
               partial_cmp |-> partial_cmp(self[1], self[2])]
    /\ pc' = "ok"
    /\ UNCHANGED <<cli, op, self, urls, i, cur, sink, written, v, result, requests,
                   ended, arrived, writes, calls, failures, cb_errs>>

InfoFormats ==
    /\ op = "InfoResponse::formats" /\ pc = "call"
    /\ out' = formats(self)
    /\ pc' = "ok"
    /\ UNCHANGED <<cli, op, self, urls, i, cur, sink, written, v, result, requests,
                   ended, arrived, writes, calls, failures, cb_errs>>

InfoAdaptiveFormats ==
    /\ op = "InfoResponse::adaptive_formats" /\ pc = "call"
    /\ out' = adaptive_formats(self)
    /\ pc' = "ok"
    /\ UNCHANGED <<cli, op, self, urls, i, cur, sink, written, v, result, requests,
                   ended, arrived, writes, calls, failures, cb_errs>>

InfoAllFormats ==
    /\ op = "InfoResponse::all_formats" /\ pc = "call"
    /\ out' = all_formats(self)
    /\ pc' = "ok"
    /\ UNCHANGED <<cli, op, self, urls, i, cur, sink, written, v, result, requests,
                   ended, arrived, writes, calls, failures, cb_errs>>

(* -------------------- Representation::segment_urls -------------------- *)
\* segment_urls reads self.segment_list.initialization with no None case
\* and returns Vec<String>: on a Representation without a SegmentList it
\* has no URL vector and no error value to return, the call panics.
SegmentUrls ==
    /\ op = "Representation::segment_urls" /\ pc = "call"
    /\ IF self.segment_list = None
       THEN /\ pc' = "panic"
            /\ UNCHANGED urls
       ELSE /\ urls' = segment_urls(self)
            /\ pc' = "ok"
    /\ UNCHANGED <<cli, op, self, i, cur, sink, written, v, result, requests,
                   ended, arrived, writes, calls, failures, cb_errs, out>>

(* --------------------------- the transport ---------------------------- *)
\* `client.get(uri).await` on URL number k: the request is issued; it
\* yields a response (then pc is `then`) or fails (then pc is `failed`)
get(url, k, then, failed) ==
    /\ requests' = Append(requests, url)
    /\ \/ /\ pc' = then
          /\ UNCHANGED <<result, failures>>
       \/ /\ pc' = failed
          /\ failures' = Append(failures, [seg |-> k, cause |-> "connect"])
          /\ result' = IF failed = "err" THEN hyper_error("connect") ELSE None

\* a Some(Ok(chunk)) of `res.body_mut().data().await`
data_chunk(then) ==
    /\ Len(arrived) < MaxChunks
    /\ \E len \in 1..MaxChunkLen :
          /\ cur' = next_chunk(len)
          /\ arrived' = Append(arrived, [seg |-> i, data |-> next_chunk(len)])
    /\ pc' = then
    /\ UNCHANGED <<result, failures>>

\* a Some(Err(e)) of `res.body_mut().data().await`, returned by `chunk?`
data_err ==
    /\ pc' = "err"
    /\ failures' = Append(failures, [seg |-> i, cause |-> "body"])
    /\ result' = hyper_error("body")
    /\ UNCHANGED <<arrived, cur>>

(* ------------------------------ the sink ------------------------------ *)
\* AsyncWriteExt::write: the sink takes the first n bytes of buf, 0 <= n <= len
write_accepts(buf) == 0..Len(buf)

\* `writer.write(&chunk).await?`: ONE write call, Ok(n) or Err
write(then) ==
    /\ \/ \E n \in write_accepts(cur) :
             /\ writes' = Append(writes, [seg |-> i, data |-> cur, n |-> n])
             /\ sink' = sink \o SubSeq(cur, 1, n)
             /\ written' = IF op = "Format::download" THEN written + n ELSE written
             /\ pc' = then[1]
             /\ i' = then[2]
             /\ UNCHANGED result
       \/ /\ writes' = Append(writes, [seg |-> i, data |-> cur, n |-> 0])
          /\ pc' = "err"
          /\ result' = io_error("write")
          /\ UNCHANGED <<sink, written, i>>
    /\ cur' = <<>>

(* --------------------------- get_video_info --------------------------- *)
\* `client.get(format!(..).parse().unwrap()).await.unwrap()`
GviGet ==
    /\ op = "get_video_info" /\ pc = "call"
    /\ i' = 1
    /\ IF ~parse_ok(info_url(self))
       THEN /\ pc' = "panic"
            /\ UNCHANGED <<requests, result, failures>>
       ELSE get(info_url(self), 1, "body", "panic")
    /\ UNCHANGED <<cli, op, self, urls, cur, sink, written, v, ended, arrived,
                   writes, calls, cb_errs, out>>

\* `body::to_bytes(res.body_mut()).await.unwrap()`
GviBody ==
    /\ op = "get_video_info" /\ pc = "body"
    /\ \/ /\ \E body \in Bodies : cur' = body
          /\ ended' = ended + 1
          /\ pc' = "decode"
          /\ UNCHANGED failures
       \/ /\ failures' = Append(failures, [seg |-> 1, cause |-> "body"])
          /\ pc' = "panic"
          /\ UNCHANGED <<cur, ended>>
    /\ UNCHANGED <<cli, op, self, urls, i, sink, written, v, result, requests,
                   arrived, writes, calls, cb_errs, out>>

\* the two decoding steps, each left with `?`, and `Ok(stream_info)`
GviDecode ==
    /\ op = "get_video_info" /\ pc = "decode"
    /\ IF decode(cur)[1] = "err"
       THEN /\ pc' = "err"
            /\ result' = decode(cur)[2]
            /\ UNCHANGED out
       ELSE /\ pc' = "ok"
            /\ out' = decode(cur)[2]
            /\ UNCHANGED result
    /\ UNCHANGED <<cli, op, self, urls, i, cur, sink, written, v, requests, ended,
                   arrived, writes, calls, failures, cb_errs>>

(* -------------------------------- main -------------------------------- *)
\* `while let Some(id) = ids.pop() { info.push(get_video_info(id).await?) }`:
\* get_video_info panics on a transport failure, returns the decoding
\* error, which main returns with `?`, or returns the InfoResponse
MainCollect ==
    /\ op = "main" /\ pc = "call" /\ cli.ids # <<>>
    /\ LET id == cli.ids[Len(cli.ids)]
           popped == [cli EXCEPT !.ids = SubSeq(cli.ids, 1, Len(cli.ids) - 1)]
       IN  /\ requests' = Append(requests, info_url(id))
           /\ \/ /\ \E cause \in {"connect", "body"} :
                       failures' = Append(failures, [seg |-> 0, cause |-> cause])
                 /\ pc' = "panic"
                 /\ cli' = popped
                 /\ UNCHANGED result
              \/ \E body \in Bodies :
                    /\ IF decode(body)[1] = "err"
                       THEN /\ pc' = "err"
                            /\ result' = decode(body)[2]
                            /\ cli' = popped
                       ELSE /\ pc' = "call"
                            /\ cli' = [popped EXCEPT
                                        !.info = Append(cli.info, unwrap(decode(body)[2]))]
                            /\ UNCHANGED result
                    /\ UNCHANGED failures
    /\ UNCHANGED <<op, self, urls, i, cur, sink, written, v, ended, arrived,
                   writes, calls, cb_errs, out>>

\* after the loop: with -F the formats are printed and the process exits
\* with 0; otherwise `for resp in info` starts
MainCollected ==
    /\ op = "main" /\ pc = "call" /\ cli.ids = <<>>
    /\ IF self.show_formats
       THEN /\ pc' = "exit0"
            /\ UNCHANGED cli
       ELSE /\ pc' = "open"
            /\ cli' = [cli EXCEPT !.k = 1]
    /\ UNCHANGED <<op, self, urls, i, cur, sink, written, v, result, requests,
                   ended, arrived, writes, calls, failures, cb_errs, out>>

\* `OpenOptions::new().write(true).create(true).open(..).await?`
MainOpen ==
    /\ op = "main" /\ pc = "open"
    /\ \/ /\ cli' = [cli EXCEPT !.files[cli.k].created = TRUE]
          /\ pc' = "choose"
          /\ UNCHANGED result
       \/ /\ pc' = "err"
          /\ result' = io_error("open")
          /\ UNCHANGED cli
    /\ UNCHANGED <<op, self, urls, i, cur, sink, written, v, requests, ended,
                   arrived, writes, calls, failures, cb_errs, out>>

\* `let chosen = ..; match chosen { Some(f) => .., None => { error!(..);
\* exit(1) } }`
MainChoose ==
    /\ op = "main" /\ pc = "choose"
    /\ cli' = [cli EXCEPT !.chosen = chosen(cli.info[cli.k], self.format)]
    /\ pc' = IF chosen(cli.info[cli.k], self.format) = None THEN "exit1" ELSE "get"
    /\ UNCHANGED <<op, self, urls, i, cur, sink, written, v, result, requests,
                   ended, arrived, writes, calls, failures, cb_errs, out>>

\* to_vec_callback's `client.get(self.url.parse().unwrap()).await.unwrap()`
\* and `let mut v = Vec::new()`
MainGet ==
    /\ op = "main" /\ pc = "get"
    /\ i' = cli.k
    /\ v' = <<>>
    /\ cli' = [cli EXCEPT !.files[cli.k].got = Some(unwrap(cli.chosen).itag)]
    /\ get(format_url(unwrap(cli.chosen)), cli.k, "body", "panic")
    /\ UNCHANGED <<op, self, urls, cur, sink, written, ended, arrived, writes,
                   calls, cb_errs, out>>

\* to_vec_callback's while loop; its Err is met by main's `.unwrap()`, its
\* Ok(v) is `vid`
MainData ==
    /\ op = "main" /\ pc = "body"
    /\ \/ /\ ended' = ended + 1
          /\ cli' = [cli EXCEPT !.files[cli.k].body = Some(v)]
          /\ pc' = "write_all"
          /\ UNCHANGED <<arrived, cur, result, failures>>
       \/ /\ failures' = Append(failures, [seg |-> cli.k, cause |-> "body"])
          /\ pc' = "panic"
          /\ UNCHANGED <<arrived, cur, result, ended, cli>>
       \/ /\ data_chunk("on_chunk")
          /\ UNCHANGED <<ended, cli>>
    /\ UNCHANGED <<op, self, urls, i, sink, written, v, requests, writes,
                   calls, cb_errs, out>>

\* MainOnChunk with the closure writing each chunk to dest as it arrives
MainOnChunk_streams ==
    /\ op = "main" /\ pc = "on_chunk"
    /\ calls' = Append(calls, cur)
    /\ v' = v \o cur
    /\ cli' = [cli EXCEPT !.files[cli.k].bytes = @ \o cur]
    /\ cur' = <<>>
    /\ pc' = "body"
    /\ UNCHANGED <<op, self, urls, i, sink, written, result, requests, ended,
                   arrived, writes, failures, cb_errs, out>>

\* main's closure `|b| { info!(..); Ok(()) }`, then `v.extend(..)`
MainOnChunk ==
    /\ op = "main" /\ pc = "on_chunk"
    /\ calls' = Append(calls, cur)
    /\ v' = v \o cur
    /\ cur' = <<>>
    /\ pc' = "body"
    /\ UNCHANGED <<cli, op, self, urls, i, sink, written, result, requests,
                   ended, arrived, writes, failures, cb_errs, out>>

\* `dest.write_all(vid.as_slice()).await?`: every byte is written, or the
\* write fails after some of them; then the for loop's next resp, or Ok(())
MainWriteAll ==
    /\ op = "main" /\ pc = "write_all"
    /\ \/ /\ cli' = [cli EXCEPT !.files[cli.k].bytes = @ \o v,
                                !.k = IF cli.k < Len(cli.info) THEN cli.k + 1 ELSE cli.k,
                                !.chosen = None]
          /\ pc' = IF cli.k < Len(cli.info) THEN "open" ELSE "ok"
          /\ UNCHANGED result
       \/ \E n \in 0..Len(v) :
             /\ n < Len(v) \/ v = <<>>
             /\ cli' = [cli EXCEPT !.files[cli.k].bytes = @ \o SubSeq(v, 1, n)]
             /\ pc' = "err"
             /\ result' = io_error("write")
    /\ UNCHANGED <<op, self, urls, i, cur, sink, written, v, requests, ended,
                   arrived, writes, calls, failures, cb_errs, out>>

(* ---------------------- Representation::download ---------------------- *)
\* `for segment_url in self.segment_urls()`: the URL vector is built before
\* the first request (and panics where segment_urls does).
RepCall ==
    /\ op = "Representation::download" /\ pc = "call"
    /\ IF self.segment_list = None
       THEN /\ pc' = "panic"
            /\ UNCHANGED <<urls, i>>
       ELSE /\ urls' = segment_urls(self)
            /\ i' = 1
            /\ pc' = "get"
    /\ UNCHANGED <<cli, op, self, cur, sink, written, v, result, requests,
                   ended, arrived, writes, calls, failures, cb_errs, out>>

\* the for loop advances to the next URL, or ends and Ok(()) is returned
next_segment(k) == IF k < Len(urls) THEN <<"get", k + 1>> ELSE <<"ok", k>>

\* RepGet with a failed request issued again instead of returned
RepGet_retry ==
    /\ op = "Representation::download" /\ pc = "get"
    /\ IF ~parse_ok(urls[i])
       THEN /\ pc' = "panic"
            /\ UNCHANGED <<requests, result, failures>>
       ELSE get(urls[i], i, "body", "get")
    /\ UNCHANGED <<cli, op, self, urls, i, cur, sink, written, v, ended, arrived,
                   writes, calls, cb_errs, out>>

\* `client.get(segment_url.parse().unwrap()).await?`
RepGet ==
    /\ op = "Representation::download" /\ pc = "get"
    /\ IF ~parse_ok(urls[i])
       THEN /\ pc' = "panic"
            /\ UNCHANGED <<requests, result, failures>>
       ELSE get(urls[i], i, "body", "err")
    /\ UNCHANGED <<cli, op, self, urls, i, cur, sink, written, v, ended, arrived,
                   writes, calls, cb_errs, out>>

\* `while let Some(chunk) = res.body_mut().data().await` and `chunk?`
RepData ==
    /\ op = "Representation::download" /\ pc = "body"
    /\ \/ /\ ended' = ended + 1
          /\ pc' = next_segment(i)[1]
          /\ i' = next_segment(i)[2]
          /\ UNCHANGED <<arrived, cur, result, failures>>
       \/ /\ data_err
          /\ UNCHANGED <<i, ended>>
       \/ /\ data_chunk("write")
          /\ UNCHANGED <<i, ended>>
    /\ UNCHANGED <<cli, op, self, urls, sink, written, v, requests, writes, calls,
                   cb_errs, out>>

\* RepWrite under `if let` in place of `while let`: after the first chunk
\* the for loop moves on to the next URL
RepWrite_if_let ==
    /\ op = "Representation::download" /\ pc = "write"
    /\ write(next_segment(i))
    /\ UNCHANGED <<cli, op, self, urls, v, requests, ended, arrived, calls,
                   failures, cb_errs, out>>

\* `writer.write(&chunk?).await?;` then the while loop reads the body again
RepWrite ==
    /\ op = "Representation::download" /\ pc = "write"
    /\ write(<<"body", i>>)
    /\ UNCHANGED <<cli, op, self, urls, v, requests, ended, arrived, calls,
                   failures, cb_errs, out>>

(* --------------------------- Format::download ------------------------- *)
\* `client.get(self.url.parse().unwrap()).await.unwrap()`: a URL that does
\* not parse and a request that fails both panic
FmtGet ==
    /\ op = "Format::download" /\ pc = "call"
    /\ i' = 1
    /\ IF ~parse_ok(self.url)
       THEN /\ pc' = "panic"
            /\ UNCHANGED <<requests, result, failures>>
       ELSE get(self.url, 1, "body", "panic")
    /\ UNCHANGED <<cli, op, self, urls, cur, sink, written, v, ended, arrived,
                   writes, calls, cb_errs, out>>

\* `while let Some(chunk) = res.body_mut().data().await` and `chunk?`
FmtData ==
    /\ op = "Format::download" /\ pc = "body"
    /\ \/ /\ ended' = ended + 1
          /\ pc' = "ok"
          /\ UNCHANGED <<arrived, cur, result, failures>>
       \/ /\ data_err
          /\ UNCHANGED ended
       \/ /\ data_chunk("write")
          /\ UNCHANGED ended
    /\ UNCHANGED <<cli, op, self, urls, i, sink, written, v, requests, writes,
                   calls, cb_errs, out>>

\* `written += dest.write(&chunk?).await?;`
FmtWrite ==
    /\ op = "Format::download" /\ pc = "write"
    /\ write(<<"body", i>>)
    /\ UNCHANGED <<cli, op, self, urls, v, requests, ended, arrived, calls,
                   failures, cb_errs, out>>

(* ------------------------ Format::to_vec_callback --------------------- *)
\* `client.get(self.url.parse().unwrap()).await.unwrap()`
VecGet ==
    /\ op = "Format::to_vec_callback" /\ pc = "call"
    /\ i' = 1
    /\ IF ~parse_ok(self.url)
       THEN /\ pc' = "panic"
            /\ UNCHANGED <<requests, result, failures>>
       ELSE get(self.url, 1, "body", "panic")
    /\ UNCHANGED <<cli, op, self, urls, cur, sink, written, v, ended, arrived,
                   writes, calls, cb_errs, out>>

\* `while let Some(chunk) = res.body_mut().data().await`, `chunk?` and
\* `let as_bytes = chunk.iter().cloned().collect()`; at the end `Ok(v)`
VecData ==
    /\ op = "Format::to_vec_callback" /\ pc = "body"
    /\ \/ /\ ended' = ended + 1
          /\ pc' = "ok"
          /\ UNCHANGED <<arrived, cur, result, failures>>
       \/ /\ data_err
          /\ UNCHANGED ended
       \/ /\ data_chunk("on_chunk")
          /\ UNCHANGED ended
    /\ UNCHANGED <<cli, op, self, urls, i, sink, written, v, requests, writes,
                   calls, cb_errs, out>>

\* VecOnChunk with the callback given the vector so far, not the chunk
VecOnChunk_cumulative ==
    /\ op = "Format::to_vec_callback" /\ pc = "on_chunk"
    /\ calls' = Append(calls, v \o cur)
    /\ \/ /\ v' = v \o cur
          /\ pc' = "body"
          /\ UNCHANGED <<result, cb_errs, out>>
       \/ /\ pc' = "err"
          /\ result' = callback_error
          /\ cb_errs' = Append(cb_errs, Len(arrived))
          /\ UNCHANGED v
    /\ cur' = <<>>
    /\ UNCHANGED <<cli, op, self, urls, i, sink, written, requests, ended, arrived,
                   writes, failures, out>>

\* VecOnChunk with the two statements swapped: v.extend, then on_chunk
VecOnChunk_extend_first ==
    /\ op = "Format::to_vec_callback" /\ pc = "on_chunk"
    /\ calls' = Append(calls, cur)
    /\ v' = v \o cur
    /\ \/ /\ pc' = "body"
          /\ UNCHANGED <<result, cb_errs, out>>
       \/ /\ pc' = "err"
          /\ result' = callback_error
          /\ cb_errs' = Append(cb_errs, Len(arrived))
    /\ cur' = <<>>
    /\ UNCHANGED <<cli, op, self, urls, i, sink, written, requests, ended, arrived,
                   writes, failures, out>>

\* `on_chunk(as_bytes.clone())?; v.extend(as_bytes.iter());`: the callback
\* is any Fn(Vec<u8>) -> Result, so it returns Ok or Err
VecOnChunk ==
    /\ op = "Format::to_vec_callback" /\ pc = "on_chunk"
    /\ calls' = Append(calls, cur)
    /\ \/ /\ v' = v \o cur
          /\ pc' = "body"
          /\ UNCHANGED <<result, cb_errs, out>>
       \/ /\ pc' = "err"
          /\ result' = callback_error
          /\ cb_errs' = Append(cb_errs, Len(arrived))
          /\ UNCHANGED v
    /\ cur' = <<>>
    /\ UNCHANGED <<cli, op, self, urls, i, sink, written, requests, ended, arrived,
                   writes, failures, out>>

Next ==
    \/ ManifestStreams
    \/ GviGet \/ GviBody \/ GviDecode
    \/ MainCollect \/ MainCollected \/ MainOpen \/ MainChoose \/ MainGet
    \/ MainData \/ MainOnChunk \/ MainWriteAll
    \/ FormatCmp \/ InfoFormats \/ InfoAdaptiveFormats \/ InfoAllFormats
    \/ SegmentUrls
    \/ RepCall \/ RepGet \/ RepData \/ RepWrite
    \/ FmtGet \/ FmtData \/ FmtWrite
    \/ VecGet \/ VecData \/ VecOnChunk

Spec == Init /\ [][Next]_vars

(* ============================== claims =============================== *)
IsRepDownload == op = "Representation::download"
IsFmtDownload == op = "Format::download"
IsToVec == op = "Format::to_vec_callback"

\* C1: Representation::download issues its GETs in the order of
\* segment_urls, one at a time: whenever a GET is issued it is for the next
\* URL of the vector, every body requested before has been read to its
\* end, and every chunk that has arrived has been handed to the sink.
C1_SequentialRequests ==
    [][(IsRepDownload /\ requests' # requests) =>
          /\ Len(requests) < Len(urls)
          /\ requests' = Append(requests, urls[Len(requests) + 1])
          /\ ended = Len(requests)
          /\ Len(writes) = Len(arrived)
          /\ \A k \in 1..Len(arrived) : writes[k].data = arrived[k].data
      ]_vars

\* a second GET has been issued after a chunk of the first body was written
C1_Witness ==
    /\ IsRepDownload
    /\ Len(requests) >= 2
    /\ \E k \in 1..Len(writes) : writes[k].seg = 1

\* C2: when Representation::download or Format::download returns Ok, the
\* sink holds exactly the concatenation of the chunks that arrived, in
\* segment order and then arrival order, whatever the sink's write accepts.
C2_SinkIsConcatenation ==
    ((IsRepDownload \/ IsFmtDownload) /\ pc = "ok") => sink = concat(ArrivedData)

\* C3: to_vec_callback invokes on_chunk once per arrived chunk, in arrival
\* order, with the chunk's bytes; when it returns Ok(v) after n chunks
\* there were n invocations and their arguments concatenate to v.
C3_OnChunkPerChunk ==
    IsToVec =>
        /\ Len(calls) = Len(arrived) - (IF pc = "on_chunk" THEN 1 ELSE 0)
        /\ \A k \in 1..Len(calls) : calls[k] = arrived[k].data
        /\ pc = "ok" => /\ Len(calls) = Len(arrived)
                        /\ concat(calls) = v

\* to_vec_callback has returned Ok after two chunks
C3_Witness == IsToVec /\ pc = "ok" /\ Len(calls) = 2

\* C4: once on_chunk has returned an error for chunk j, to_vec_callback has
\* returned that error, chunk j is not in the vector, no later chunk has
\* been read and on_chunk has not been invoked again.
C4_OnChunkErrorAborts ==
    (IsToVec /\ cb_errs # <<>>) =>
        LET j == cb_errs[1]
        IN  /\ pc = "err"
            /\ result = callback_error
            /\ v = concat(SubSeq(ArrivedData, 1, j - 1))
            /\ Len(arrived) = j
            /\ Len(calls) = j
            /\ Len(cb_errs) = 1

\* on_chunk accepted the first chunk and failed on the second
C4_Witness == IsToVec /\ cb_errs = <<2>> /\ v # <<>> /\ pc = "err"

\* C5: once the transport has failed on segment f (on the GET or on a body
\* chunk), Representation::download has returned an error: URL f was
\* requested once, no later URL is requested, and no write is of a later
\* segment.
C5_TransportFailureAborts ==
    (IsRepDownload /\ failures # <<>>) =>
        LET f == failures[1].seg
        IN  /\ pc = "err"
            /\ result # None
            /\ Len(failures) = 1
            /\ requests = SubSeq(urls, 1, f)
            /\ \A k \in 1..Len(arrived) : arrived[k].seg <= f
            /\ \A k \in 1..Len(writes) : writes[k].seg <= f

\* the second of three segments failed after bytes reached the sink
C5_Witness ==
    /\ IsRepDownload
    /\ Len(urls) = 3
    /\ failures # <<>> /\ failures[1].seg = 2
    /\ sink # <<>>

C7_SegmentUrls ==
    (op = "Representation::segment_urls" /\ pc = "ok") =>
        LET list == unwrap(self.segment_list)
            k == Len(list.segment_urls)
        IN  /\ Len(urls) = k + 1
            /\ urls[1] = self.base_url \o <<"/">> \o list.initialization.source_url
            /\ \A j \in 1..k :
                  urls[j + 1] = self.base_url \o <<"/">> \o list.segment_urls[j].media

\* two media segments, not in sorted order
C7_Witness ==
    /\ op = "Representation::segment_urls" /\ pc = "ok"
    /\ Len(urls) = 3
    /\ unwrap(self.segment_list).segment_urls = <<[media |-> <<"b">>], [media |-> <<"a">>]>>

\* C8: segment_urls on a Representation without a SegmentList fails with
\* UnsupportedAddressing, and a download of it returns that error without
\* issuing a request.
C8_UnsupportedAddressing ==
    (op \in {"Representation::segment_urls", "Representation::download"}
        /\ self.segment_list = None /\ pc # "call") =>
        /\ pc = "err"
        /\ result # None
        /\ unwrap(result).type = "UnsupportedAddressing"
        /\ requests = <<>>

\* s is in ascending itag order: no element's itag exceeds its successor's
Ascending(s) == \A k \in 1..(Len(s) - 1) : s[k].itag <= s[k + 1].itag

StrictlyAscending(s) == \A k \in 1..(Len(s) - 1) : s[k].itag < s[k + 1].itag

\* s and t hold the same Formats, each as many times
SameFormats(s, t) ==
    /\ Len(s) = Len(t)
    /\ \A f \in CatalogFormats :
          Cardinality({k \in 1..Len(s) : s[k] = f})
              = Cardinality({k \in 1..Len(t) : t[k] = f})

C10_StrictlyAscending ==
    /\ (op = "Format::cmp" /\ pc = "ok") =>
          /\ out.eq = (self[1].itag = self[2].itag)
          /\ out.eq = (out.cmp = "Equal")
    /\ (op = "InfoResponse::adaptive_formats" /\ pc = "ok") => StrictlyAscending(out)
    /\ (op = "InfoResponse::formats" /\ pc = "ok" /\ out # None) =>
          StrictlyAscending(unwrap(out))

\* the itags of s are pairwise different
DistinctItags(s) == \A k, l \in 1..Len(s) : s[k].itag = s[l].itag => k = l

\* C10 amended: Format's eq, cmp and partial_cmp read the itag only and
\* agree, and sorting a list of Formats yields the same Formats in
\* ascending itag order: strictly ascending when no two of them share an
\* itag, Formats of one itag next to each other otherwise.
C10_ItagOrder ==
    /\ (op = "Format::cmp" /\ pc = "ok") =>
          /\ out.eq = (self[1].itag = self[2].itag)
          /\ out.eq = (out.cmp = "Equal")
          /\ out.partial_cmp = Some(out.cmp)
          /\ out.cmp = "Less" <=> self[1].itag < self[2].itag
    /\ (op = "InfoResponse::adaptive_formats" /\ pc = "ok") =>
          /\ Ascending(out)
          /\ SameFormats(out, self.streaming_data.adaptive_formats)
          /\ DistinctItags(out) => StrictlyAscending(out)
    /\ (op = "InfoResponse::formats" /\ pc = "ok" /\ out # None) =>
          /\ Ascending(unwrap(out))
          /\ SameFormats(unwrap(out), unwrap(self.streaming_data.formats))
          /\ DistinctItags(unwrap(out)) => StrictlyAscending(unwrap(out))

\* a list holding two Formats of one itag and different quality labels was
\* sorted: it is in ascending order and not in strictly ascending order
C10_Witness ==
    /\ op = "InfoResponse::adaptive_formats" /\ pc = "ok"
    /\ Len(out) = 2
    /\ out[1].itag = out[2].itag /\ out[1].quality # out[2].quality
    /\ eq(out[1], out[2])

RECURSIVE flatten(_)
\* the AdaptationSets of a sequence of Periods, Period after Period
flatten(ps) ==
    IF ps = <<>> THEN <<>> ELSE Head(ps).adaptation_sets \o flatten(Tail(ps))

\* C11: Manifest::streams returns the AdaptationSets of all the Periods of
\* the manifest in one sequence, in document order: its length is the sum
\* of the Periods' AdaptationSet counts.
C11_StreamsFlattened ==
    (op = "Manifest::streams" /\ pc = "ok") => out = flatten(self.periods)

\* C14: Format::download and Format::to_vec_callback are the one-URL case
\* of the segmented download: one GET, for the Format's URL; every chunk
\* of the body passed on in arrival order; and every transport failure, on
\* the GET or on a body chunk, returned to the caller as the error.
C14_FlatDownload ==
    (IsFmtDownload \/ IsToVec) =>
        /\ (pc # "call" /\ parse_ok(self.url)) => requests = <<self.url>>
        /\ (pc = "ok" /\ IsFmtDownload) =>
              /\ Len(writes) = Len(arrived)
              /\ \A k \in 1..Len(arrived) : writes[k].data = arrived[k].data
        /\ (pc = "ok" /\ IsToVec) => v = concat(ArrivedData)
        /\ failures # <<>> =>
              /\ pc = "err"
              /\ result = hyper_error(failures[1].cause)

\* C15: get_video_info issues one request and no second one; a transport
\* failure, an envelope that does not decode and a JSON text that is no
\* InfoResponse are each returned as an error value of its own kind; it
\* never panics on them and returns Ok only with the InfoResponse decoded.
C15_GetVideoInfo ==
    (op = "get_video_info" /\ parse_ok(info_url(self))) =>
        /\ Len(requests) <= 1
        /\ pc # "call" => requests = <<info_url(self)>>
        /\ pc # "panic"
        /\ failures # <<>> =>
              /\ pc = "err"
              /\ result = hyper_error(failures[1].cause)
        /\ (pc \in {"ok", "err"} /\ failures = <<>> /\ cur = None) =>
              (pc = "err" /\ result = urlencoded_error)
        /\ (pc \in {"ok", "err"} /\ failures = <<>> /\ cur = Some(None)) =>
              (pc = "err" /\ result = json_error)
        /\ pc = "ok" => (cur # None /\ out = unwrap(cur) /\ out # None)
        /\ Cardinality({hyper_error("connect"), hyper_error("body"),
                        urlencoded_error, json_error}) = 4

IsMain == op = "main"

\* the largest itag among the Formats fs
MaxItagOf(fs) == CHOOSE m \in {fs[k].itag : k \in 1..Len(fs)} :
                    \A k \in 1..Len(fs) : fs[k].itag <= m

\* C12: the Format the CLI requests for a video is, without -f, the one
\* with the highest itag among all the video's formats, progressive and
\* adaptive; with -f, one whose itag is the value given.
C12_ChosenFormat ==
    IsMain =>
        \A k \in 1..Len(cli.files) :
            cli.files[k].got # None =>
                IF self.format = None
                THEN unwrap(cli.files[k].got) = MaxItagOf(all_formats(cli.info[k]))
                ELSE to_string(unwrap(cli.files[k].got)) = unwrap(self.format)

\* -f is given and no Format of the k-th video has that itag
MissingItag(k) ==
    /\ self.format # None
    /\ k \in 1..Len(cli.info)
    /\ \A j \in 1..Len(all_formats(cli.info[k])) :
          to_string(all_formats(cli.info[k])[j].itag) # unwrap(self.format)

\* C13: when -f names an itag that no Format of a video has, the CLI exits
\* with code 1 and does not panic, and when it exits the video's file has
\* not been created and no download request for the video was issued.
C13_MissingItagExit ==
    (IsMain /\ cli.k >= 1 /\ MissingItag(cli.k)) =>
        /\ pc \in {"open", "choose", "exit1", "err"}
        /\ pc = "exit1" =>
              /\ ~cli.files[cli.k].created
              /\ cli.files[cli.k].got = None

\* the chunks that arrived for the k-th video
BodyOf(k) ==
    LET idx == {j \in 1..Len(arrived) : arrived[j].seg = k}
        RECURSIVE upto(_)
        upto(j) == IF j = 0 THEN <<>>
                   ELSE upto(j - 1) \o (IF j \in idx THEN arrived[j].data ELSE <<>>)
    IN  upto(Len(arrived))

====
